---- MODULE Spec2Model ----
(***************************************************************************)
(* token-pulse: the HTTP handler of api/pulse.js and the library of        *)
(* src/index.js (fetchTokenData, calculatePulse, getPulse, getBatchPulse,  *)
(* formatPulseSummary), modelled as a state machine.                       *)
(*                                                                         *)
(* One step of the machine is one macrotask of the JavaScript event loop:  *)
(* the synchronous code of the task together with every promise reaction   *)
(* (microtask) it triggers.  No network event can run between a promise    *)
(* settling and the continuations awaiting it.                             *)
(*                                                                         *)
(* Strings that the code parses (query parameters, priceUsd) are sequences *)
(* of one-character strings; numbers are integers; the quotient            *)
(* vol24h / mcap is kept as an exact fraction.                             *)
(***************************************************************************)
EXTENDS Integers, Sequences, FiniteSets, TLC

VARIABLES
    entry,      \* which exported function runs: "handler" or "getBatchPulse"
    req,        \* the HTTP request: method and the query parameters
    input,      \* the argument of getBatchPulse
    pc,         \* "start", "awaiting" (suspended at await Promise.all), "done"
    addresses,  \* the address list the fan-out ran over
    calls,      \* one record per getPulse call: address, upstream answer, promise
    fetched,    \* the upstream GETs issued so far, in issue order
    all,        \* the promise returned by Promise.all
    response,   \* the Response the handler returned
    returned,   \* the promise returned by getBatchPulse
    inOrder,    \* history: the GETs that ended so far ended in index order
    scored,     \* scoring specification: the pair handed to calculatePulse
    labels,     \* scoring specification: the labels the two copies returned
    listed,     \* selection specification: the pair list upstream answered with
    pulses      \* selection specification: what the two getPulse copies resolved to

vars == <<entry, req, input, pc, addresses, calls, fetched, all, response,
          returned, inOrder, scored, labels, listed, pulses>>

procVars == <<entry, req, input, pc, addresses, calls, fetched, all, response,
              returned, inOrder>>

-----------------------------------------------------------------------------
(* Bounds of the model *)

\* longest comma-separated list (and getBatchPulse argument) explored with
\* every upstream answer for every call
MaxSegs == 3

\* longest pair list handed to getPulse in the selection specification
MaxPairs == 3

(* Program constants *)

\* api/pulse.js: if (addresses.length > 10)
MaxTokens == 10

\* formatPulseSummary: result.address.slice(0, 10)
SliceLen == 10

-----------------------------------------------------------------------------
(* JavaScript values *)

\* searchParams.get() of a parameter that is not in the query string
Null == <<"<null>">>

\* if (s), s || d for a string or null
Truthy(s) == s # Null /\ s # <<>>

\* Array.prototype.join(',') on strings
RECURSIVE Join(_)
Join(segs) ==
    IF Len(segs) = 0 THEN <<>>
    ELSE IF Len(segs) = 1 THEN segs[1]
    ELSE segs[1] \o <<",">> \o Join(Tail(segs))

\* String.prototype.split(',')
RECURSIVE Split(_)
Split(s) ==
    IF \A i \in 1..Len(s) : s[i] # "," THEN <<s>>
    ELSE LET i == CHOOSE k \in 1..Len(s) :
                      s[k] = "," /\ \A j \in 1..(k - 1) : s[j] # ","
         IN  <<SubSeq(s, 1, i - 1)>> \o Split(SubSeq(s, i + 1, Len(s)))

RECURSIVE TrimStart(_)
TrimStart(s) == IF s # <<>> /\ Head(s) = " " THEN TrimStart(Tail(s)) ELSE s

RECURSIVE TrimEnd(_)
TrimEnd(s) ==
    IF s # <<>> /\ s[Len(s)] = " " THEN TrimEnd(SubSeq(s, 1, Len(s) - 1)) ELSE s

\* String.prototype.trim()
Trim(s) == TrimEnd(TrimStart(s))

\* tokens.split(',').map(t => t.trim()).filter(Boolean)
ParseTokens(tokens) ==
    LET trimmed == [i \in 1..Len(Split(tokens)) |-> Trim(Split(tokens)[i])]
    IN  SelectSeq(trimmed, LAMBDA t : t # <<>>)

\* x || 0 for an optional numeric field
Or0(r, k) == IF k \in DOMAIN r THEN r[k] ELSE 0

Pending == [state |-> "pending"]
Fulfilled(v) == [state |-> "fulfilled", value |-> v]
Rejected(m) == [state |-> "rejected", reason |-> [message |-> m]]

-----------------------------------------------------------------------------
(* Pulse Scorer: calculatePulse, src/index.js and its inlined copy in api/pulse.js *)

\* A pair is a record holding the fields upstream sent; a field upstream left
\* out is not in its domain.  volumeH24 is pair.volume?.h24, priceChangeH24 is
\* pair.priceChange?.h24, buys and sells are pair.txns?.h24?.buys / .sells,
\* liquidityUsd is pair.liquidity?.usd, name and symbol are pair.baseToken's.
NoPair == [absent |-> TRUE]

\* const vol24h = pair.volume?.h24 || 0
Vol24h(p) == Or0(p, "volumeH24")

\* const mcap = pair.marketCap || pair.fdv || 0
Mcap(p) ==
    IF Or0(p, "marketCap") # 0 THEN p.marketCap
    ELSE IF Or0(p, "fdv") # 0 THEN p.fdv
    ELSE 0

\* const change24h = pair.priceChange?.h24 || 0
Change24h(p) == Or0(p, "priceChangeH24")

\* const txns24h = (buys || 0) + (sells || 0)
Txns24h(p) == Or0(p, "buys") + Or0(p, "sells")

\* const volRatio = mcap > 0 ? vol24h / mcap : 0, as the fraction num/den, den > 0
VolRatio(p) ==
    IF Mcap(p) > 0 THEN [num |-> Vol24h(p), den |-> Mcap(p)] ELSE [num |-> 0, den |-> 1]

\* volRatio > 1/d for the literals 0.1 (d = 10) and 0.01 (d = 100)
RatioAbove(r, d) == r.num * d > r.den

\* mutant: the top volume tier entered at 10000 instead of above it
VolumeTierInclusive(p) ==
    IF Vol24h(p) >= 10000 THEN 3
    ELSE IF Vol24h(p) > 1000 THEN 2
    ELSE IF Vol24h(p) > 100 THEN 1
    ELSE 0

VolumeTier(p) ==
    IF Vol24h(p) > 10000 THEN 3
    ELSE IF Vol24h(p) > 1000 THEN 2
    ELSE IF Vol24h(p) > 100 THEN 1
    ELSE 0

TxnsTier(p) ==
    IF Txns24h(p) > 50 THEN 2
    ELSE IF Txns24h(p) > 10 THEN 1
    ELSE 0

TurnoverTier(p) ==
    IF RatioAbove(VolRatio(p), 10) THEN 2
    ELSE IF RatioAbove(VolRatio(p), 100) THEN 1
    ELSE 0

TrendBonus(p) ==
    (IF Change24h(p) > 20 THEN 1 ELSE 0) - (IF Change24h(p) < -50 THEN 2 ELSE 0)

\* the value of score when the mapping to a label starts
Score(p) == VolumeTier(p) + TxnsTier(p) + TurnoverTier(p) + TrendBonus(p)

\* Map score to pulse
ScoreLabel(score) ==
    IF score >= 6 THEN "strong"
    ELSE IF score >= 4 THEN "stable"
    ELSE IF score >= 2 THEN "weak"
    ELSE IF score >= 0 THEN "critical"
    ELSE "dead"

\* src/index.js
calculatePulse(p) == IF p = NoPair THEN "dead" ELSE ScoreLabel(Score(p))

\* api/pulse.js, the inlined copy
ApiScore(p) ==
    LET vol24h == Or0(p, "volumeH24")
        mcap == IF Or0(p, "marketCap") # 0 THEN p.marketCap
                ELSE IF Or0(p, "fdv") # 0 THEN p.fdv ELSE 0
        change24h == Or0(p, "priceChangeH24")
        txns24h == Or0(p, "buys") + Or0(p, "sells")
        volRatio == IF mcap > 0 THEN [num |-> vol24h, den |-> mcap]
                    ELSE [num |-> 0, den |-> 1]
        s1 == IF vol24h > 10000 THEN 3 ELSE IF vol24h > 1000 THEN 2
              ELSE IF vol24h > 100 THEN 1 ELSE 0
        s2 == s1 + (IF txns24h > 50 THEN 2 ELSE IF txns24h > 10 THEN 1 ELSE 0)
        s3 == s2 + (IF RatioAbove(volRatio, 10) THEN 2
                    ELSE IF RatioAbove(volRatio, 100) THEN 1 ELSE 0)
        s4 == IF change24h > 20 THEN s3 + 1 ELSE s3
        s5 == IF change24h < -50 THEN s4 - 2 ELSE s4
    IN  s5

ApiCalculatePulse(p) ==
    IF p = NoPair THEN "dead"
    ELSE LET score == ApiScore(p)
         IN  IF score >= 6 THEN "strong"
             ELSE IF score >= 4 THEN "stable"
             ELSE IF score >= 2 THEN "weak"
             ELSE IF score >= 0 THEN "critical"
             ELSE "dead"

-----------------------------------------------------------------------------
(* Upstream Client: fetchTokenData *)

\* What one upstream GET ends with: the connection failing, or an HTTP status
\* with a body that is malformed JSON or a JSON object (with or without pairs).
NetworkFailure == [kind |-> "network"]
HttpAnswer(status, body) == [kind |-> "http", status |-> status, body |-> body]
Malformed == [json |-> FALSE]
Json(data) == [json |-> TRUE, data |-> data]

\* res.ok
Ok(answer) == answer.status \in 200..299

FetchFailedMsg == <<"fetch failed">>
JsonErrorMsg == <<"Unexpected token < in JSON at position 0">>
ApiErrorMsg(status) == <<"Dexscreener API error: ", status>>

\* src/index.js: what the promise of fetchTokenData(address) settles to when
\* the GET ends with answer
fetchTokenData(address, answer) ==
    IF answer.kind = "network" THEN Rejected(FetchFailedMsg)
    ELSE IF ~Ok(answer) THEN Rejected(ApiErrorMsg(answer.status))
    ELSE IF ~answer.body.json THEN Rejected(JsonErrorMsg)
    ELSE IF "pairs" \in DOMAIN answer.body.data THEN Fulfilled(answer.body.data.pairs)
    ELSE Fulfilled(<<>>)

\* api/pulse.js, the inlined copy
ApiFetchTokenData(address, answer) ==
    IF answer.kind = "network" THEN Rejected(FetchFailedMsg)
    ELSE IF ~Ok(answer) THEN Rejected(ApiErrorMsg(answer.status))
    ELSE IF ~answer.body.json THEN Rejected(JsonErrorMsg)
    ELSE IF "pairs" \in DOMAIN answer.body.data THEN Fulfilled(answer.body.data.pairs)
    ELSE Fulfilled(<<>>)

-----------------------------------------------------------------------------
(* Pair Selector and Result Assembler: getPulse *)

Digits == <<"0", "1", "2", "3", "4", "5", "6", "7", "8", "9">>
IsDigit(c) == \E d \in 1..10 : Digits[d] = c
DigitValue(c) == (CHOOSE d \in 1..10 : Digits[d] = c) - 1

RECURSIVE ParseDigits(_, _)
ParseDigits(s, acc) ==
    IF s = <<>> \/ ~IsDigit(Head(s)) THEN acc
    ELSE ParseDigits(Tail(s), acc * 10 + DigitValue(Head(s)))

\* parseFloat(mainPair.priceUsd) || 0 on strings of digits and letters: the
\* leading digits, and 0 for undefined or a string that starts with no digit (NaN)
ParsePrice(p) == IF "priceUsd" \in DOMAIN p THEN ParseDigits(p.priceUsd, 0) ELSE 0

\* new Date().toISOString(): the instant of assembly, one opaque value
Now == "now"

\* pairs.reduce((best, pair) => vol(pair) > vol(best) ? pair : best, pairs[0]),
\* the callback applied to elements i..Len(ps)
RECURSIVE Reduce(_, _, _)
Reduce(best, ps, i) ==
    IF i > Len(ps) THEN best
    ELSE Reduce(IF Or0(ps[i], "volumeH24") > Or0(best, "volumeH24") THEN ps[i] ELSE best,
                ps, i + 1)

\* mutant: the reduce keeps the later pair on equal volume
RECURSIVE ReduceLast(_, _, _)
ReduceLast(best, ps, i) ==
    IF i > Len(ps) THEN best
    ELSE ReduceLast(IF Or0(ps[i], "volumeH24") >= Or0(best, "volumeH24") THEN ps[i] ELSE best,
                    ps, i + 1)

MainPairLast(ps) == ReduceLast(ps[1], ps, 1)

MainPair(ps) == Reduce(ps[1], ps, 1)

RECURSIVE ApiReduce(_, _, _)
ApiReduce(best, ps, i) ==
    IF i > Len(ps) THEN best
    ELSE ApiReduce(IF Or0(ps[i], "volumeH24") > Or0(best, "volumeH24") THEN ps[i] ELSE best,
                   ps, i + 1)

ApiMainPair(ps) == ApiReduce(ps[1], ps, 1)

\* token: { name: baseToken?.name, symbol: baseToken?.symbol }; a key whose
\* value is undefined is not in the record
TokenOf(p) == [k \in {"name", "symbol"} \cap DOMAIN p |-> p[k]]

StatsOf(p) ==
    [price |-> ParsePrice(p),
     mcap |-> Mcap(p),
     volume24h |-> Or0(p, "volumeH24"),
     change24h |-> Or0(p, "priceChangeH24"),
     txns24h |-> Or0(p, "buys") + Or0(p, "sells"),
     liquidity |-> Or0(p, "liquidityUsd")]

\* pair: { dex: dexId, chain: chainId, url }
PairOf(p) ==
    LET from == [dex |-> "dexId", chain |-> "chainId", url |-> "url"]
    IN  [k \in {c \in DOMAIN from : from[c] \in DOMAIN p} |-> p[from[k]]]

NotFound(address) ==
    [address |-> address, found |-> FALSE, pulse |-> "dead",
     message |-> "No trading pairs found"]

Found(address, ps, mainPair, pulse) ==
    [address |-> address, found |-> TRUE, pulse |-> pulse,
     token |-> TokenOf(mainPair), stats |-> StatsOf(mainPair), pair |-> PairOf(mainPair),
     pairCount |-> Len(ps), timestamp |-> Now]

\* src/index.js: what the promise of getPulse(address) settles to
getPulse(address, answer) ==
    LET fetch == fetchTokenData(address, answer)
    IN  IF fetch.state = "rejected" THEN fetch
        ELSE IF Len(fetch.value) = 0 THEN Fulfilled(NotFound(address))
        ELSE Fulfilled(Found(address, fetch.value, MainPair(fetch.value),
                             calculatePulse(MainPair(fetch.value))))

\* api/pulse.js, the inlined copy
ApiGetPulse(address, answer) ==
    LET fetch == ApiFetchTokenData(address, answer)
    IN  IF fetch.state = "rejected" THEN fetch
        ELSE IF Len(fetch.value) = 0 THEN Fulfilled(NotFound(address))
        ELSE Fulfilled(Found(address, fetch.value, ApiMainPair(fetch.value),
                             ApiCalculatePulse(ApiMainPair(fetch.value))))

\* src/index.js getBatchPulse: getPulse(addr).catch(err => ({...}))
\* mutant: the catch labels the failed address dead, like an address without pairs
ErrorEntryDead(addr, err) ==
    [address |-> addr, found |-> FALSE, pulse |-> "dead", error |-> err.message]

ErrorEntry(addr, err) ==
    [address |-> addr, found |-> FALSE, pulse |-> "error", error |-> err.message]

\* mutant: getPulse(addr) without the .catch
Uncaught(addr, promise) == promise

Caught(addr, promise) ==
    IF promise.state = "rejected" THEN Fulfilled(ErrorEntry(addr, promise.reason))
    ELSE promise

-----------------------------------------------------------------------------
(* Response Formatter: formatPulseSummary, formatNum *)

\* formatNum(n) for an integer n >= 0: the digits toFixed prints, in tenths
\* for the M and K forms (round half up), and the unit
formatNum(n) ==
    IF n >= 1000000 THEN [tenths |-> (n + 50000) \div 100000, unit |-> "M"]
    ELSE IF n >= 1000 THEN [tenths |-> (n + 50) \div 100, unit |-> "K"]
    ELSE [tenths |-> n * 10, unit |-> ""]

Emoji(pulse) ==
    CASE pulse = "strong" -> "flexed biceps"
      [] pulse = "stable" -> "check mark"
      [] pulse = "weak" -> "warning"
      [] pulse = "critical" -> "red circle"
      [] pulse = "dead" -> "skull"
      [] pulse = "error" -> "cross mark"
      [] OTHER -> "question mark"

ToUpperCase(pulse) ==
    CASE pulse = "strong" -> "STRONG"
      [] pulse = "stable" -> "STABLE"
      [] pulse = "weak" -> "WEAK"
      [] pulse = "critical" -> "CRITICAL"
      [] pulse = "dead" -> "DEAD"
      [] OTHER -> "ERROR"

\* String.prototype.slice(0, n)
Slice(s, n) == SubSeq(s, 1, IF Len(s) < n THEN Len(s) ELSE n)

\* the parts of the one-line summary, in the order the template prints them
formatPulseSummary(result) ==
    IF ~result.found THEN <<Slice(result.address, SliceLen), "... - ", result.pulse>>
    ELSE <<Emoji(result.pulse),
           IF "symbol" \in DOMAIN result.token THEN result.token.symbol ELSE "undefined",
           ToUpperCase(result.pulse),
           result.stats.price,
           formatNum(result.stats.mcap),
           formatNum(result.stats.volume24h),
           IF result.stats.change24h >= 0 THEN "+" ELSE "",
           result.stats.change24h>>

-----------------------------------------------------------------------------
(* The HTTP handler of api/pulse.js *)

FormatFull == <<"full">>
FormatSummary == <<"summary">>

\* const format = url.searchParams.get('format') || 'full'
FormatOf(r) == IF Truthy(r.format) THEN r.format ELSE FormatFull

\* the addresses of a request that passed the if (token) / else if (tokens) test
AddressesOf(r) == IF Truthy(r.token) THEN <<r.token>> ELSE ParseTokens(r.tokens)

\* mutant: the limit test rejects a list of exactly 10
OverLimitInclusive(addrs) == Len(addrs) >= MaxTokens

\* the limit test: if (addresses.length > 10)
OverLimit(addrs) == Len(addrs) > MaxTokens

NoResponse == [status |-> 0]

\* new Response(body, { headers }) has status 200
Respond(status, body) == [status |-> status, body |-> body]

MissingBody ==
    [error |-> "Missing token address",
     usage |-> "GET /api/pulse?token=0x... or GET /api/pulse?tokens=0x...,0x...",
     example |-> "/api/pulse?token=0x4dc5f49fc95427b984f27db843755787589314c0"]

TooManyBody == [error |-> "Too many tokens", message |-> "Maximum 10 tokens per request"]

InternalError(err) ==
    Respond(500, [error |-> "Internal error", message |-> err.message])

\* mutant: the single-address return placed before the summary branch
RenderSingleFirst(format, addrs, results) ==
    IF Len(addrs) = 1 THEN Respond(200, results[1])
    ELSE IF format = FormatSummary
    THEN Respond(200, [count |-> Len(results),
                       summaries |-> [i \in 1..Len(results) |-> formatPulseSummary(results[i])],
                       results |-> results])
    ELSE Respond(200, [count |-> Len(results), results |-> results])

\* the code after await Promise.all(...)
Render(format, addrs, results) ==
    IF format = FormatSummary
    THEN Respond(200, [count |-> Len(results),
                       summaries |-> [i \in 1..Len(results) |-> formatPulseSummary(results[i])],
                       results |-> results])
    ELSE IF Len(addrs) = 1 THEN Respond(200, results[1])
    ELSE Respond(200, [count |-> Len(results), results |-> results])

\* the handler resuming from the await: the try block's tail or its catch
Resume(r, addrs, promise) ==
    IF promise.state = "fulfilled" THEN Render(FormatOf(r), addrs, promise.value)
    ELSE InternalError(promise.reason)

-----------------------------------------------------------------------------
(* Promise.all and the in-flight calls *)

NoAnswer == [kind |-> "none"]

\* addresses.map(f): every call is started, and its GET issued, before any await
StartCalls(addrs) ==
    [i \in 1..Len(addrs) |-> [address |-> addrs[i], answer |-> NoAnswer, promise |-> Pending]]

AllFulfilled(cs) == \A j \in 1..Len(cs) : cs[j].promise.state = "fulfilled"

\* Promise.all over cs, before any element settled
PromiseAllStart(cs) == IF Len(cs) = 0 THEN Fulfilled(<<>>) ELSE Pending

\* mutant: the values collected in completion order, the element that settled
\* last at the end
PromiseAllCompletionOrder(prev, cs, i) ==
    IF prev.state # "pending" THEN prev
    ELSE IF cs[i].promise.state = "rejected" THEN cs[i].promise
    ELSE IF AllFulfilled(cs)
    THEN Fulfilled([j \in 1..Len(cs) |->
                      IF j < i THEN cs[j].promise.value
                      ELSE IF j < Len(cs) THEN cs[j + 1].promise.value
                      ELSE cs[i].promise.value])
    ELSE prev

\* Promise.all after element i of cs settled: rejected with the first rejection,
\* fulfilled with the values in index order once every element is fulfilled
PromiseAllStep(prev, cs, i) ==
    IF prev.state # "pending" THEN prev
    ELSE IF cs[i].promise.state = "rejected" THEN cs[i].promise
    ELSE IF AllFulfilled(cs) THEN Fulfilled([j \in 1..Len(cs) |-> cs[j].promise.value])
    ELSE prev

-----------------------------------------------------------------------------
(* Inputs *)

AddrA == <<"A">>
AddrB == <<"B">>

\* the comma-separated entries a tokens parameter is joined from: an empty
\* entry, a blank one, an address, an address with blanks around it
Segs == {<<>>, <<" ">>, AddrA, <<" ", "B", " ">>}

SeqsUpTo(S, lo, hi) == UNION {[1..n -> S] : n \in lo..hi}

\* lists at and one past the limit of MaxTokens
LongLists(a, b) ==
    {[i \in 1..n |-> a] : n \in {MaxTokens, MaxTokens + 1}}
    \cup {[i \in 1..MaxTokens |-> IF i % 2 = 1 THEN a ELSE b]}

TokensParams == {Join(segs) : segs \in SeqsUpTo(Segs, 1, MaxSegs) \cup LongLists(AddrA, <<" ", "B", " ">>)}

\* token absent or an address with every tokens parameter; token empty with
\* tokens absent, empty, blank and a two-address list
Requests ==
    [method : {"GET", "OPTIONS"},
     token : {Null, AddrA},
     tokens : {Null} \cup TokensParams,
     format : {Null, FormatFull, FormatSummary}]
    \cup
    [method : {"GET", "OPTIONS"},
     token : {<<>>},
     tokens : {Null, <<>>, <<" ", ",">>, <<"A", ",", "B">>},
     format : {Null, FormatFull, FormatSummary}]

NoRequest == [method |-> "none", token |-> Null, tokens |-> Null, format |-> Null]

BatchInputs == SeqsUpTo({AddrA, AddrB}, 0, MaxSegs) \cup LongLists(AddrA, AddrB)

\* the pair of the spec's scenario (score 8) and a pair that scores below 0
BusyPair ==
    [dexId |-> "uniswap", chainId |-> "base", symbol |-> "FOO", priceUsd |-> <<"2">>,
     volumeH24 |-> 15000, marketCap |-> 50000, priceChangeH24 |-> 25,
     buys |-> 30, sells |-> 30]

QuietPair == [dexId |-> "sushi", volumeH24 |-> 50, fdv |-> 900000, priceChangeH24 |-> -60]

Answers ==
    {NetworkFailure,
     HttpAnswer(404, Malformed),
     HttpAnswer(200, Malformed),
     HttpAnswer(200, Json([schemaVersion |-> "1.0.0"])),
     HttpAnswer(200, Json([pairs |-> <<QuietPair>>])),
     HttpAnswer(200, Json([pairs |-> <<QuietPair, BusyPair>>]))}

\* the answer upstream gives for an address in the lists longer than MaxSegs
SteadyAnswer(address) ==
    IF address = AddrA THEN HttpAnswer(200, Json([pairs |-> <<QuietPair, BusyPair>>]))
    ELSE HttpAnswer(404, Malformed)

\* the answers explored for a call of a fan-out over cs
AnswersFor(cs, i) == IF Len(cs) <= MaxSegs THEN Answers ELSE {SteadyAnswer(cs[i].address)}

-----------------------------------------------------------------------------
(* The handler and getBatchPulse as processes *)

ScoreIdle == scored = NoPair /\ labels = [lib |-> "idle", api |-> "idle"]
SelectIdle == listed = <<>> /\ pulses = [lib |-> Pending, api |-> Pending, address |-> AddrA]

ProcStart ==
    /\ pc = "start"
    /\ addresses = <<>>
    /\ calls = <<>>
    /\ fetched = <<>>
    /\ all = Pending
    /\ response = NoResponse
    /\ returned = Pending
    /\ inOrder = TRUE

ProcIdle ==
    /\ entry = "none"
    /\ req = NoRequest
    /\ input = <<>>
    /\ pc = "done"
    /\ addresses = <<>>
    /\ calls = <<>>
    /\ fetched = <<>>
    /\ all = Pending
    /\ response = NoResponse
    /\ returned = Pending
    /\ inOrder = TRUE

Init ==
    /\ \/ entry = "handler" /\ req \in Requests /\ input = <<>>
       \/ entry = "getBatchPulse" /\ req = NoRequest /\ input \in BatchInputs
    /\ ProcStart
    /\ ScoreIdle
    /\ SelectIdle

\* if (req.method === 'OPTIONS') return new Response(null, { headers })
Options ==
    /\ entry = "handler" /\ pc = "start"
    /\ req.method = "OPTIONS"
    /\ response' = Respond(200, [empty |-> TRUE])
    /\ pc' = "done"
    /\ UNCHANGED <<entry, req, input, addresses, calls, fetched, all, returned, inOrder>>

\* neither token nor tokens: 400 with error, usage, example
MissingToken ==
    /\ entry = "handler" /\ pc = "start"
    /\ req.method # "OPTIONS"
    /\ ~Truthy(req.token) /\ ~Truthy(req.tokens)
    /\ response' = Respond(400, MissingBody)
    /\ pc' = "done"
    /\ UNCHANGED <<entry, req, input, addresses, calls, fetched, all, returned, inOrder>>

\* addresses.length > 10: 400 with error, message
TooMany ==
    /\ entry = "handler" /\ pc = "start"
    /\ req.method # "OPTIONS"
    /\ Truthy(req.token) \/ Truthy(req.tokens)
    /\ OverLimit(AddressesOf(req))
    /\ addresses' = AddressesOf(req)
    /\ response' = Respond(400, TooManyBody)
    /\ pc' = "done"
    /\ UNCHANGED <<entry, req, input, calls, fetched, all, returned, inOrder>>

\* const results = await Promise.all(addresses.map(getPulse)): every GET is
\* issued; over an empty list the await resumes in the same task
FanOut ==
    /\ entry = "handler" /\ pc = "start"
    /\ req.method # "OPTIONS"
    /\ Truthy(req.token) \/ Truthy(req.tokens)
    /\ ~OverLimit(AddressesOf(req))
    /\ addresses' = AddressesOf(req)
    /\ calls' = StartCalls(addresses')
    /\ fetched' = [i \in 1..Len(calls') |-> calls'[i].address]
    /\ all' = PromiseAllStart(calls')
    /\ IF all'.state = "pending"
       THEN pc' = "awaiting" /\ UNCHANGED response
       ELSE pc' = "done" /\ response' = Resume(req, addresses', all')
    /\ UNCHANGED <<entry, req, input, returned, inOrder>>

\* the GET of call i ends with answer: getPulse settles, then Promise.all,
\* then the handler if this settles the promise it awaits.  The calls the
\* handler did not wait for settle the same way after it has responded.
HandlerCallSettles(i, answer) ==
    /\ entry = "handler"
    /\ calls[i].promise = Pending
    /\ calls' = [calls EXCEPT ![i].answer = answer,
                              ![i].promise = ApiGetPulse(calls[i].address, answer)]
    /\ all' = PromiseAllStep(all, calls', i)
    /\ IF pc = "awaiting" /\ all'.state # "pending"
       THEN pc' = "done" /\ response' = Resume(req, addresses, all')
       ELSE UNCHANGED <<pc, response>>
    /\ inOrder' = (inOrder /\ \A j \in 1..(i - 1) : calls[j].promise # Pending)
    /\ UNCHANGED <<entry, req, input, addresses, fetched, returned>>

\* getBatchPulse(addresses): Promise.all(addresses.map(addr => getPulse(addr).catch(...)))
BatchFanOut ==
    /\ entry = "getBatchPulse" /\ pc = "start"
    /\ addresses' = input
    /\ calls' = StartCalls(input)
    /\ fetched' = [i \in 1..Len(calls') |-> calls'[i].address]
    /\ all' = PromiseAllStart(calls')
    /\ IF all'.state = "pending"
       THEN pc' = "awaiting" /\ UNCHANGED returned
       ELSE pc' = "done" /\ returned' = all'
    /\ UNCHANGED <<entry, req, input, response, inOrder>>

\* the GET of call i ends with answer: getPulse(addr).catch(...) settles, then
\* Promise.all, then getBatchPulse returns results
BatchCallSettles(i, answer) ==
    /\ entry = "getBatchPulse"
    /\ calls[i].promise = Pending
    /\ calls' = [calls EXCEPT ![i].answer = answer,
                              ![i].promise = Caught(calls[i].address,
                                                    getPulse(calls[i].address, answer))]
    /\ all' = PromiseAllStep(all, calls', i)
    /\ IF pc = "awaiting" /\ all'.state # "pending"
       THEN pc' = "done" /\ returned' = all'
       ELSE UNCHANGED <<pc, returned>>
    /\ inOrder' = (inOrder /\ \A j \in 1..(i - 1) : calls[j].promise # Pending)
    /\ UNCHANGED <<entry, req, input, addresses, fetched, response>>

HandlerSettles == \E i \in 1..Len(calls) : \E a \in AnswersFor(calls, i) : HandlerCallSettles(i, a)
BatchSettles == \E i \in 1..Len(calls) : \E a \in AnswersFor(calls, i) : BatchCallSettles(i, a)

Next ==
    \/ (Options /\ UNCHANGED <<scored, labels, listed, pulses>>)
    \/ (MissingToken /\ UNCHANGED <<scored, labels, listed, pulses>>)
    \/ (TooMany /\ UNCHANGED <<scored, labels, listed, pulses>>)
    \/ (FanOut /\ UNCHANGED <<scored, labels, listed, pulses>>)
    \/ (HandlerSettles /\ UNCHANGED <<scored, labels, listed, pulses>>)
    \/ (BatchFanOut /\ UNCHANGED <<scored, labels, listed, pulses>>)
    \/ (BatchSettles /\ UNCHANGED <<scored, labels, listed, pulses>>)

Spec == Init /\ [][Next]_vars

-----------------------------------------------------------------------------
(* calculatePulse on its own: both copies applied to one pair *)

OptionalFields(base, key, values) ==
    {base} \cup {[k \in DOMAIN base \cup {key} |-> IF k = key THEN v ELSE base[k]] : v \in values}

RECURSIVE Build(_, _, _)
\* all records over keys[1..n], each key absent or one of values[key]
Build(keys, values, n) ==
    IF n = 0 THEN {[dexId |-> "uniswap"]}
    ELSE UNION {OptionalFields(b, keys[n], values[keys[n]]) : b \in Build(keys, values, n - 1)}

ScoreKeys == <<"volumeH24", "marketCap", "fdv", "priceChangeH24", "buys", "sells">>

\* values on both sides of every threshold of the scorer
ScoreValues ==
    [volumeH24 |-> {0, 100, 101, 1000, 1001, 10000, 10001},
     marketCap |-> {0, 1009, 1010, 10099, 10100, 100000},
     fdv |-> {0, 1010},
     priceChangeH24 |-> {-51, -50, 0, 20, 21},
     buys |-> {0, 10, 11, 50, 51},
     sells |-> {0, 1}]

ScorePairs == Build(ScoreKeys, ScoreValues, Len(ScoreKeys)) \cup {BusyPair, QuietPair}

ScoreInit ==
    /\ scored \in ScorePairs \cup {NoPair}
    /\ labels = [lib |-> "idle", api |-> "idle"]
    /\ ProcIdle
    /\ SelectIdle

\* src/index.js calculatePulse(pair)
CalculateLib ==
    /\ labels.lib = "idle"
    /\ labels' = [labels EXCEPT !.lib = calculatePulse(scored)]
    /\ UNCHANGED <<scored, listed, pulses, procVars>>

\* api/pulse.js calculatePulse(pair)
CalculateApi ==
    /\ labels.api = "idle"
    /\ labels' = [labels EXCEPT !.api = ApiCalculatePulse(scored)]
    /\ UNCHANGED <<scored, listed, pulses, procVars>>

ScoreNext == CalculateLib \/ CalculateApi

SpecScore == ScoreInit /\ [][ScoreNext]_vars

-----------------------------------------------------------------------------
(* getPulse on its own: both copies applied to one upstream pair list *)

SelectKeys == <<"dexId", "symbol", "volumeH24">>

SelectValues ==
    [dexId |-> {"uniswap", "sushi"},
     symbol |-> {"FOO"},
     volumeH24 |-> {0, 150, 20000}]

SelectPairs == Build(SelectKeys, SelectValues, Len(SelectKeys))

SelectInit ==
    /\ listed \in SeqsUpTo(SelectPairs, 0, MaxPairs)
    /\ pulses = [lib |-> Pending, api |-> Pending, address |-> AddrA]
    /\ ProcIdle
    /\ ScoreIdle

\* src/index.js getPulse(address), upstream answering 200 with listed
GetPulseLib ==
    /\ pulses.lib = Pending
    /\ pulses' = [pulses EXCEPT
                     !.lib = getPulse(pulses.address, HttpAnswer(200, Json([pairs |-> listed])))]
    /\ UNCHANGED <<scored, labels, listed, procVars>>

\* api/pulse.js getPulse(address), upstream answering 200 with listed
GetPulseApi ==
    /\ pulses.api = Pending
    /\ pulses' = [pulses EXCEPT
                     !.api = ApiGetPulse(pulses.address, HttpAnswer(200, Json([pairs |-> listed])))]
    /\ UNCHANGED <<scored, labels, listed, procVars>>

SelectNext == GetPulseLib \/ GetPulseApi

SpecSelect == SelectInit /\ [][SelectNext]_vars

-----------------------------------------------------------------------------
(* Properties of the batch fan-out *)

Settled(c) == c.promise # Pending

\* the upstream call ended in a non-2xx status, a network failure or a body
\* that is not JSON
FailedAnswer(a) ==
    \/ a.kind = "network"
    \/ a.kind = "http" /\ (a.status < 200 \/ a.status > 299)
    \/ a.kind = "http" /\ ~a.body.json

GetRequest == entry = "handler" /\ req.method = "GET"

\* a GET that reaches the tokens branch: token absent or empty
TokensRequest == GetRequest /\ req.token \in {Null, <<>>} /\ req.tokens \notin {Null, <<>>}

\* C1: in a GET batch of 2..10 addresses whose calls have all ended, exactly one
\* of them failed, the response is a success with Len(results) = N, the failing
\* entry has found = FALSE and pulse = "error", and every other entry is the
\* result of its own call.
C1_OneFailureIsolated ==
    (/\ TokensRequest
     /\ pc = "done"
     /\ Len(calls) \in 2..MaxTokens
     /\ \A i \in 1..Len(calls) : Settled(calls[i])
     /\ Cardinality({i \in 1..Len(calls) : FailedAnswer(calls[i].answer)}) = 1)
    => /\ response.status = 200
       /\ "results" \in DOMAIN response.body
       /\ Len(response.body.results) = Len(calls)
       /\ \A i \in 1..Len(calls) :
            IF FailedAnswer(calls[i].answer)
            THEN /\ response.body.results[i].found = FALSE
                 /\ response.body.results[i].pulse = "error"
            ELSE response.body.results[i] = calls[i].promise.value

\* C2: getBatchPulse never rejects; once every call has ended it has resolved
\* to a sequence as long as its input, in which a failed address is exactly
\* {address, found: false, pulse: "error", error: message} and every other
\* entry is the result getPulse produced for that address.
C2_BatchNeverRejects ==
    entry = "getBatchPulse" =>
        /\ returned.state # "rejected"
        /\ all.state # "rejected"
        /\ (pc # "start" /\ \A i \in 1..Len(calls) : Settled(calls[i]))
              => returned.state = "fulfilled"
        /\ returned.state = "fulfilled" =>
              /\ Len(returned.value) = Len(input)
              /\ \A i \in 1..Len(input) :
                   LET own == getPulse(input[i], calls[i].answer)
                   IN  IF FailedAnswer(calls[i].answer)
                       THEN /\ own.state = "rejected"
                            /\ returned.value[i] =
                                 [address |-> input[i], found |-> FALSE, pulse |-> "error",
                                  error |-> own.reason.message]
                       ELSE /\ own.state = "fulfilled"
                            /\ returned.value[i] = own.value

\* a resolved batch of at least three with a failed call, an address without
\* pairs and a scored one
C2_Witness ==
    /\ entry = "getBatchPulse"
    /\ returned.state = "fulfilled"
    /\ Len(returned.value) >= 3
    /\ \E i, j, k \in 1..Len(returned.value) :
         /\ returned.value[i].pulse = "error"
         /\ returned.value[i].error = ApiErrorMsg(404)
         /\ returned.value[j].found
         /\ returned.value[k] = NotFound(input[k])

\* C3: the results are index-aligned with the input addresses, whatever the
\* order the upstream calls ended in: for getBatchPulse and for the results
\* array of the handler.
C3_ResultsIndexAligned ==
    /\ (entry = "getBatchPulse" /\ returned.state = "fulfilled") =>
          /\ Len(returned.value) = Len(input)
          /\ \A i \in 1..Len(input) : returned.value[i].address = input[i]
    /\ (entry = "handler" /\ response.status = 200 /\ "results" \in DOMAIN response.body) =>
          /\ Len(response.body.results) = Len(AddressesOf(req))
          /\ \A i \in 1..Len(AddressesOf(req)) :
               response.body.results[i].address = AddressesOf(req)[i]

\* a handler response over B, A, B whose calls did not end in index order
C3_Witness ==
    /\ entry = "handler"
    /\ response.status = 200
    /\ "results" \in DOMAIN response.body
    /\ ~inOrder
    /\ [i \in 1..Len(response.body.results) |-> response.body.results[i].address]
         = <<AddrB, AddrA, AddrB>>

-----------------------------------------------------------------------------
(* Properties of the request boundary *)

\* the request names no address: token and tokens are absent or empty, or
\* tokens holds nothing but commas and blanks
NoAddressSupplied ==
    /\ req.token \in {Null, <<>>}
    /\ \/ req.tokens = Null
       \/ \A i \in 1..Len(req.tokens) : req.tokens[i] \in {",", " "}

\* C4: a GET that supplies no address is answered 400 with the error, usage
\* and example payload and issues no upstream call; the fetch pipeline is
\* entered with 1..10 addresses only.
C4_NoAddressIs400 ==
    (GetRequest /\ pc = "done") =>
        /\ NoAddressSupplied =>
              /\ response.status = 400
              /\ DOMAIN response.body = {"error", "usage", "example"}
              /\ fetched = <<>>
        /\ all # Pending => Len(addresses) \in 1..MaxTokens

\* C5: the handler issues no upstream GET for a request rejected for having
\* more than 10 addresses (400 with error and message), and exactly one GET per
\* listed address, duplicates included, for a request with 1..10 addresses;
\* none is issued again whatever the calls end with.
C5_OneGetPerAddress ==
    (entry = "handler" /\ req.method # "OPTIONS" /\ pc # "start" /\ ~NoAddressSupplied) =>
        LET listedAddresses == AddressesOf(req)
        IN  /\ Len(listedAddresses) > MaxTokens =>
                  /\ response.status = 400
                  /\ DOMAIN response.body = {"error", "message"}
                  /\ fetched = <<>>
            /\ Len(listedAddresses) \in 1..MaxTokens =>
                  /\ fetched = listedAddresses
                  /\ response.status # 400

\* a request of exactly MaxTokens addresses, one GET each, some of them failed
C5_Witness ==
    /\ entry = "handler"
    /\ Len(fetched) = MaxTokens
    /\ pc = "done"
    /\ \E i \in 1..Len(calls) : calls[i].promise.state = "rejected"
    /\ \E i \in 1..Len(calls) : calls[i].promise.state = "fulfilled"

\* the body is one PulseResult, not wrapped in count/results
IsPulseResult(body) ==
    /\ "address" \in DOMAIN body
    /\ "count" \notin DOMAIN body
    /\ "results" \notin DOMAIN body

\* C6 as claimed: a 200 response to a request with exactly one address is the
\* PulseResult itself whichever format is given; with two or more addresses it
\* is {count, results} or, for format=summary, {count, summaries, results}.
C6_Original ==
    (GetRequest /\ response.status = 200 /\ Len(addresses) >= 1) =>
        IF Len(addresses) = 1
        THEN IsPulseResult(response.body) /\ response.body = calls[1].promise.value
        ELSE /\ DOMAIN response.body =
                  (IF FormatOf(req) = FormatSummary THEN {"count", "summaries", "results"}
                   ELSE {"count", "results"})
             /\ response.body.count = Len(addresses)

\* C6 as amended: format=summary returns {count, summaries, results} for any
\* number of addresses, one included; any other format returns the PulseResult
\* itself for one address and {count, results} for two or more; count is the
\* number of addresses.
C6_BodyShape ==
    (GetRequest /\ response.status = 200 /\ Len(addresses) >= 1) =>
        IF FormatOf(req) = FormatSummary
        THEN /\ DOMAIN response.body = {"count", "summaries", "results"}
             /\ response.body.count = Len(addresses)
             /\ Len(response.body.results) = Len(addresses)
             /\ Len(response.body.summaries) = Len(addresses)
        ELSE IF Len(addresses) = 1
        THEN IsPulseResult(response.body) /\ response.body = calls[1].promise.value
        ELSE /\ DOMAIN response.body = {"count", "results"}
             /\ response.body.count = Len(addresses)
             /\ Len(response.body.results) = Len(addresses)

\* a single address asked with format=summary and answered 200
C6_Witness ==
    /\ GetRequest
    /\ response.status = 200
    /\ Len(addresses) = 1
    /\ req.format = FormatSummary
    /\ response.body.count = 1
    /\ response.body.results[1].found

\* C10: the handler responds to a request with 1..10 addresses only after all
\* of its upstream calls have ended.
C10_RespondsAfterAllCalls ==
    (entry = "handler" /\ pc = "done" /\ Len(calls) \in 1..MaxTokens) =>
        \A i \in 1..Len(calls) : Settled(calls[i])

-----------------------------------------------------------------------------
(* Properties of the results *)

Labels == {"strong", "stable", "weak", "critical", "dead"}

\* the pair list a successful upstream answer carries
PairList(a) == IF "pairs" \in DOMAIN a.body.data THEN a.body.data.pairs ELSE <<>>

\* the invariant of section 3 for the result r of a call that ended with answer a
WellFormedResult(r, a) ==
    IF r.found
    THEN /\ r.pulse \in Labels
         /\ {"stats", "token", "pair", "pairCount"} \subseteq DOMAIN r
         /\ ~FailedAnswer(a)
         /\ r.pairCount = Len(PairList(a))
         /\ r.pairCount >= 1
    ELSE /\ r.pulse \in {"dead", "error"}
         /\ DOMAIN r \cap {"stats", "token", "pair"} = {}
         /\ r.pulse = "error" <=> FailedAnswer(a)
         /\ r.pulse = "dead" => (~FailedAnswer(a) /\ PairList(a) = <<>>)

\* C7: every PulseResult of getPulse (the fulfilled calls of the handler) and
\* of getBatchPulse (its calls and the sequence it resolves to) is not found
\* with pulse dead (no pairs) or error (failed call) and no stats, token or
\* pair, or found with a label other than error and stats, token, pair and
\* pairCount = the number of pairs >= 1.
C7_ResultInvariant ==
    /\ \A i \in 1..Len(calls) :
         calls[i].promise.state = "fulfilled" =>
             WellFormedResult(calls[i].promise.value, calls[i].answer)
    /\ (entry = "getBatchPulse" /\ returned.state = "fulfilled") =>
         \A i \in 1..Len(returned.value) :
             WellFormedResult(returned.value[i], calls[i].answer)

\* a resolved batch holding an error entry, a found entry labelled dead and a
\* found entry labelled strong
C7_Witness ==
    /\ entry = "getBatchPulse"
    /\ returned.state = "fulfilled"
    /\ \E i, j, k \in 1..Len(returned.value) :
         /\ returned.value[i].pulse = "error"
         /\ returned.value[j].found /\ returned.value[j].pulse = "dead"
         /\ returned.value[k].found /\ returned.value[k].pulse = "strong"
                                     /\ returned.value[k].pairCount = 2

-----------------------------------------------------------------------------
(* Properties of the scorer *)

\* the reference scoring function of the claim, on the four metrics
RefVolume(vol) == IF vol > 10000 THEN 3 ELSE IF vol > 1000 THEN 2 ELSE IF vol > 100 THEN 1 ELSE 0
RefTxns(txns) == IF txns > 50 THEN 2 ELSE IF txns > 10 THEN 1 ELSE 0
RefTurnover(vol, mcap) ==
    IF mcap > 0 /\ 10 * vol > mcap THEN 2
    ELSE IF mcap > 0 /\ 100 * vol > mcap THEN 1
    ELSE 0
RefScore(vol, mcap, txns, change) ==
    RefVolume(vol) + RefTxns(txns) + RefTurnover(vol, mcap)
    + (IF change > 20 THEN 1 ELSE 0) - (IF change < -50 THEN 2 ELSE 0)

RefLabel(score) ==
    CASE score \in 6..8 -> "strong"
      [] score \in 4..5 -> "stable"
      [] score \in 2..3 -> "weak"
      [] score \in 0..1 -> "critical"
      [] score \in -2..-1 -> "dead"
      [] OTHER -> "unmapped"

\* the label the claim gives the pair p
RefPulse(p) ==
    IF p = NoPair THEN "dead"
    ELSE RefLabel(RefScore(Vol24h(p), Mcap(p), Txns24h(p), Change24h(p)))

\* C8: both copies of calculatePulse return the label of the reference scoring
\* function; the score lies in -2..8 and every score has a label; a null pair
\* is dead.
C8_ScoreMatchesReference ==
    /\ labels.lib # "idle" => labels.lib = RefPulse(scored) /\ labels.lib \in Labels
    /\ labels.api # "idle" => labels.api = RefPulse(scored) /\ labels.api \in Labels
    /\ (labels.lib # "idle" /\ labels.api # "idle") => labels.lib = labels.api
    /\ (scored # NoPair /\ labels.lib # "idle") => Score(scored) \in -2..8
    /\ (scored # NoPair /\ labels.api # "idle") => ApiScore(scored) \in -2..8
    /\ (scored = NoPair /\ labels.lib # "idle") => labels.lib = "dead"

\* both copies have scored a pair on the boundary of the volume, transaction
\* and turnover tiers, whose market cap fell back to fdv
C8_Witness ==
    /\ scored # NoPair
    /\ labels.lib = "weak" /\ labels.api = "weak"
    /\ Vol24h(scored) = 101
    /\ Txns24h(scored) = 51
    /\ "marketCap" \notin DOMAIN scored /\ Mcap(scored) = 1010
    /\ Change24h(scored) = -51

-----------------------------------------------------------------------------
(* Properties of the pair selection *)

VolumeOf(p) == IF "volumeH24" \in DOMAIN p THEN p.volumeH24 ELSE 0

\* the earliest index of a pair of maximum 24h volume
EarliestMax(ps) ==
    CHOOSE i \in 1..Len(ps) :
        /\ \A j \in 1..Len(ps) : VolumeOf(ps[j]) <= VolumeOf(ps[i])
        /\ \A j \in 1..(i - 1) : VolumeOf(ps[j]) < VolumeOf(ps[i])

ReportsPair(r, p) ==
    /\ r.found
    /\ r.pulse = RefPulse(p)
    /\ r.stats.volume24h = VolumeOf(p)
    /\ r.pair.dex = p.dexId
    /\ ("symbol" \in DOMAIN r.token) = ("symbol" \in DOMAIN p)
    /\ r.pairCount = Len(listed)

\* C9: for a non-empty pair list, both copies of getPulse score and report the
\* earliest pair of maximum 24h volume (a missing volume counting as 0).
C9_MainPairIsEarliestMax ==
    listed # <<>> =>
        /\ pulses.lib # Pending =>
              /\ pulses.lib.state = "fulfilled"
              /\ ReportsPair(pulses.lib.value, listed[EarliestMax(listed)])
        /\ pulses.api # Pending =>
              /\ pulses.api.state = "fulfilled"
              /\ ReportsPair(pulses.api.value, listed[EarliestMax(listed)])

\* three pairs, the maximum volume shared by the last two, which differ in
\* dex and symbol; both copies have answered
C9_Witness ==
    /\ Len(listed) = 3
    /\ pulses.lib # Pending /\ pulses.api # Pending
    /\ VolumeOf(listed[1]) < VolumeOf(listed[2])
    /\ VolumeOf(listed[2]) = VolumeOf(listed[3])
    /\ listed[2].dexId # listed[3].dexId
    /\ "symbol" \in DOMAIN listed[2] /\ "symbol" \notin DOMAIN listed[3]
    /\ pulses.lib.value.pair.dex = listed[2].dexId

====
